---- MODULE Spec2Model ----
(***************************************************************************)
(* gtfs-translations (src/src/lib.rs): resolution of the rows of a GTFS    *)
(* translations.txt table into a lookup map, a coverage list and a list of *)
(* languages.                                                              *)
(*                                                                         *)
(* Encoding.  Option<T>: None is <<>>, Some(x) is <<x>>.  A TranslationKey  *)
(* is <<"Record", id>>, <<"RecordSub", id, sub>> or <<"Value", v>>.  A      *)
(* TranslatableField is <<table variant, field variant>>.  A language text  *)
(* is a sequence of one-character strings; a LanguageTag is the sequence    *)
(* of its normalised serialisation.  A HashMap is a function, a HashSet a   *)
(* set, a Vec a sequence.                                                   *)
(***************************************************************************)
EXTENDS Integers, Sequences, FiniteSets, TLC

\* Longest CSV text, in records, that the build is run on.
MaxRows == 2

VARIABLES
    pc,                     \* "csv" | "rows" | "collect" | "done" | "call" | "return"
    data,                   \* the records the CSV reader yields: Ok(row) or Err
    raw_translations,       \* rows still to be consumed by the for loop
    consumed,               \* rows the for loop has consumed, in order
    res,                    \* HashMap<TranslationLookup, String>
    possible_translations,  \* HashSet<(TranslatableField, LanguageTag)>
    returned,               \* Option<Result<TranslationResult, _>> of this run
    first,                  \* what an earlier run on the same text returned
    args,                   \* arguments of a call of one of the pure functions
    ret                     \* its return value

vars == <<pc, data, raw_translations, consumed, res, possible_translations,
          returned, first, args, ret>>

None == <<>>
Some(x) == <<x>>
Range(s) == {s[k] : k \in DOMAIN s}
EmptyMap == [k \in {} |-> ""]

(***************************************************************************)
(* Field taxonomy                                                          *)
(***************************************************************************)
\* A plausible slip: a catch-all arm that files an unknown table under its
\* field name alone.
table_and_field_to_enum_wildcard(table_name, field_name) ==
    CASE table_name = "agency" ->
            (CASE field_name = "agency_name" -> Some(<<"Agency", "Name">>)
               [] field_name = "agency_url" -> Some(<<"Agency", "Url">>)
               [] field_name = "agency_fare_url" -> Some(<<"Agency", "FareUrl">>)
               [] OTHER -> None)
      [] table_name = "areas" ->
            (CASE field_name = "area_name" -> Some(<<"Areas", "Name">>)
               [] OTHER -> None)
      [] table_name = "routes" ->
            (CASE field_name = "route_long_name" -> Some(<<"Routes", "LongName">>)
               [] field_name = "route_short_name" -> Some(<<"Routes", "ShortName">>)
               [] field_name = "route_url" -> Some(<<"Routes", "Url">>)
               [] field_name = "route_desc" -> Some(<<"Routes", "Desc">>)
               [] OTHER -> None)
      [] table_name = "stop_times" ->
            (CASE field_name = "stop_headsign" -> Some(<<"StopTimes", "Headsign">>)
               [] OTHER -> None)
      [] table_name = "stops" ->
            (CASE field_name = "stop_code" -> Some(<<"Stops", "Code">>)
               [] field_name = "stop_name" -> Some(<<"Stops", "Name">>)
               [] field_name = "tts_stop_name" -> Some(<<"Stops", "TtsName">>)
               [] field_name = "stop_desc" -> Some(<<"Stops", "Desc">>)
               [] field_name = "platform_code" -> Some(<<"Stops", "PlatformCode">>)
               [] OTHER -> None)
      [] table_name = "trips" ->
            (CASE field_name = "trip_headsign" -> Some(<<"Trips", "Headsign">>)
               [] field_name = "trip_short_name" -> Some(<<"Trips", "ShortName">>)
               [] OTHER -> None)
      [] table_name = "calendar" ->
            (CASE field_name = "service_id" -> Some(<<"Calendar", "ServiceId">>)
               [] OTHER -> None)
      [] table_name = "fare_products" ->
            (CASE field_name = "fare_product_name" -> Some(<<"FareProducts", "ProductName">>)
               [] OTHER -> None)
      [] table_name = "feed_info" ->
            (CASE field_name = "feed_publisher_name" -> Some(<<"FeedInfo", "PublisherName">>)
               [] OTHER -> None)
      [] OTHER ->
            (CASE field_name = "stop_name" -> Some(<<"Stops", "Name">>)
               [] OTHER -> None)

table_and_field_to_enum(table_name, field_name) ==
    CASE table_name = "agency" ->
            (CASE field_name = "agency_name" -> Some(<<"Agency", "Name">>)
               [] field_name = "agency_url" -> Some(<<"Agency", "Url">>)
               [] field_name = "agency_fare_url" -> Some(<<"Agency", "FareUrl">>)
               [] OTHER -> None)
      [] table_name = "areas" ->
            (CASE field_name = "area_name" -> Some(<<"Areas", "Name">>)
               [] OTHER -> None)
      [] table_name = "routes" ->
            (CASE field_name = "route_long_name" -> Some(<<"Routes", "LongName">>)
               [] field_name = "route_short_name" -> Some(<<"Routes", "ShortName">>)
               [] field_name = "route_url" -> Some(<<"Routes", "Url">>)
               [] OTHER -> None)
      [] table_name = "stop_times" ->
            (CASE field_name = "stop_headsign" -> Some(<<"StopTimes", "Headsign">>)
               [] OTHER -> None)
      [] table_name = "stops" ->
            (CASE field_name = "stop_code" -> Some(<<"Stops", "Code">>)
               [] field_name = "stop_name" -> Some(<<"Stops", "Name">>)
               [] field_name = "tts_stop_name" -> Some(<<"Stops", "TtsName">>)
               [] field_name = "stop_desc" -> Some(<<"Stops", "Desc">>)
               [] field_name = "platform_code" -> Some(<<"Stops", "PlatformCode">>)
               [] OTHER -> None)
      [] table_name = "trips" ->
            (CASE field_name = "trip_headsign" -> Some(<<"Trips", "Headsign">>)
               [] field_name = "trip_short_name" -> Some(<<"Trips", "ShortName">>)
               [] OTHER -> None)
      [] table_name = "calendar" ->
            (CASE field_name = "service_id" -> Some(<<"Calendar", "ServiceId">>)
               [] OTHER -> None)
      [] table_name = "fare_products" ->
            (CASE field_name = "fare_product_name" -> Some(<<"FareProducts", "ProductName">>)
               [] OTHER -> None)
      [] table_name = "feed_info" ->
            (CASE field_name = "feed_publisher_name" -> Some(<<"FeedInfo", "PublisherName">>)
               [] OTHER -> None)
      [] OTHER -> None

(***************************************************************************)
(* Key resolver                                                            *)
(***************************************************************************)
\* A plausible slip: the arms in the wrong order, the literal value first.
key_options_to_struct_value_first(record_id, record_sub_id, field_value) ==
    CASE field_value # None -> Some(<<"Value", field_value[1]>>)
      [] field_value = None /\ record_id # None /\ record_sub_id # None ->
            Some(<<"RecordSub", record_id[1], record_sub_id[1]>>)
      [] field_value = None /\ record_id # None /\ record_sub_id = None ->
            Some(<<"Record", record_id[1]>>)
      [] OTHER -> None

\* A plausible slip: the literal value is honoured only when the sub-id is
\* absent too.
key_options_to_struct_strict_value(record_id, record_sub_id, field_value) ==
    CASE record_id # None /\ record_sub_id # None ->
            Some(<<"RecordSub", record_id[1], record_sub_id[1]>>)
      [] record_id # None /\ record_sub_id = None ->
            Some(<<"Record", record_id[1]>>)
      [] record_id = None /\ record_sub_id = None /\ field_value # None ->
            Some(<<"Value", field_value[1]>>)
      [] OTHER -> None

\* The match of lines 188-193: the first arm that matches is taken.
key_options_to_struct(record_id, record_sub_id, field_value) ==
    IF record_id # None /\ record_sub_id # None
    THEN Some(<<"RecordSub", record_id[1], record_sub_id[1]>>)
    ELSE IF record_id # None
    THEN Some(<<"Record", record_id[1]>>)
    ELSE IF field_value # None
    THEN Some(<<"Value", field_value[1]>>)
    ELSE None

(***************************************************************************)
(* Language tags.  LanguageTag::parse belongs to the language_tags crate;  *)
(* it is modelled on the tags that are one primary language subtag (RFC    *)
(* 5646: two to eight letters), which it accepts and lower-cases; every    *)
(* other text over the alphabet below is rejected.                         *)
(***************************************************************************)
UpperLetters == {"E", "N", "F", "R"}
LowerLetters == {"e", "n", "f", "r"}

IsLetter(c) == c \in UpperLetters \cup LowerLetters

to_lowercase(c) ==
    CASE c = "E" -> "e"
      [] c = "N" -> "n"
      [] c = "F" -> "f"
      [] c = "R" -> "r"
      [] OTHER -> c

LanguageTag_parse(text) ==
    IF /\ Len(text) \in 2..8
       /\ \A k \in DOMAIN text : IsLetter(text[k])
    THEN Some([k \in DOMAIN text |-> to_lowercase(text[k])])
    ELSE None

(***************************************************************************)
(* translate_raw_translations: the body of the for loop, on one row        *)
(***************************************************************************)
TranslationLookup(language, field, key) ==
    [language |-> language, field |-> field, key |-> key]

\* HashMap::insert: the value under an equal key is replaced.
insert(map, k, v) ==
    [x \in DOMAIN map \cup {k} |-> IF x = k THEN v ELSE map[x]]

\* A plausible slip: a row whose language does not parse is filed under the
\* undetermined language instead of being skipped.
for_row_default_language(acc, row) ==
    LET parsed == LanguageTag_parse(row.language)
        language_tag == IF parsed # None THEN parsed[1] ELSE <<"u", "n", "d">>
        field == table_and_field_to_enum(row.table_name, row.field_name)
        key == key_options_to_struct(row.record_id, row.record_sub_id, row.field_value)
    IN  IF field # None /\ key # None
        THEN [res |-> insert(acc.res,
                             TranslationLookup(language_tag, field[1], key[1]),
                             row.translation),
              possible_translations |->
                  acc.possible_translations \cup {<<field[1], language_tag>>}]
        ELSE acc

\* A plausible slip: entry().or_insert() instead of insert(), so that the
\* first row of a triple wins.
for_row_first_wins(acc, row) ==
    LET parsed == LanguageTag_parse(row.language)
        field == table_and_field_to_enum(row.table_name, row.field_name)
        key == key_options_to_struct(row.record_id, row.record_sub_id, row.field_value)
    IN  IF parsed # None /\ field # None /\ key # None
        THEN LET k == TranslationLookup(parsed[1], field[1], key[1])
             IN  [res |-> IF k \in DOMAIN acc.res THEN acc.res
                          ELSE insert(acc.res, k, row.translation),
                  possible_translations |->
                      acc.possible_translations \cup {<<field[1], parsed[1]>>}]
        ELSE acc

\* A plausible slip: the coverage pair is recorded one brace too far out,
\* before the key is known to exist.
for_row_early_coverage(acc, row) ==
    LET parsed == LanguageTag_parse(row.language)
        field == table_and_field_to_enum(row.table_name, row.field_name)
        key == key_options_to_struct(row.record_id, row.record_sub_id, row.field_value)
    IN  IF parsed # None /\ field # None
        THEN [res |-> IF key # None
                      THEN insert(acc.res,
                                  TranslationLookup(parsed[1], field[1], key[1]),
                                  row.translation)
                      ELSE acc.res,
              possible_translations |->
                  acc.possible_translations \cup {<<field[1], parsed[1]>>}]
        ELSE acc

\* A plausible slip: the coverage pair is recorded with the language text
\* as written instead of the parsed tag.
for_row_raw_coverage(acc, row) ==
    LET parsed == LanguageTag_parse(row.language)
        field == table_and_field_to_enum(row.table_name, row.field_name)
        key == key_options_to_struct(row.record_id, row.record_sub_id, row.field_value)
    IN  IF parsed # None /\ field # None /\ key # None
        THEN [res |-> insert(acc.res,
                             TranslationLookup(parsed[1], field[1], key[1]),
                             row.translation),
              possible_translations |->
                  acc.possible_translations \cup {<<field[1], row.language>>}]
        ELSE acc

\* Lines 200-212.
for_row(acc, row) ==
    LET parsed == LanguageTag_parse(row.language)
        field == table_and_field_to_enum(row.table_name, row.field_name)
        key == key_options_to_struct(row.record_id, row.record_sub_id, row.field_value)
    IN  IF parsed # None /\ field # None /\ key # None
        THEN [res |-> insert(acc.res,
                             TranslationLookup(parsed[1], field[1], key[1]),
                             row.translation),
              possible_translations |->
                  acc.possible_translations \cup {<<field[1], parsed[1]>>}]
        ELSE acc

\* The orders in which iterating a HashSet can yield its elements: the
\* hasher is seeded per set, so every order is possible.
into_iter_collect(set) ==
    {s \in [1..Cardinality(set) -> set] : Range(s) = set}

(***************************************************************************)
(* Inputs                                                                  *)
(***************************************************************************)
RawTranslation(tf, language, translation, key) ==
    [table_name |-> tf[1], field_name |-> tf[2], language |-> language,
     translation |-> translation,
     record_id |-> key[1], record_sub_id |-> key[2], field_value |-> key[3]]

Ok(x) == <<"Ok", x>>
Err == <<"Err">>

\* Language texts: two spellings of one tag, another tag, and a text that is
\* no tag.
LanguageTexts == {<<"e", "n">>, <<"E", "N">>, <<"f", "r">>, <<"e", "1">>}
TranslationTexts == {"Main St", "Rue Principale"}
OptionIds == {None, Some("S1")}
OptionSubIds == {None, Some("1")}
OptionValues == {None, Some("Main")}
KeyColumns == OptionIds \X OptionSubIds \X OptionValues
OtherTableFields ==
    {<<"routes", "route_url">>, <<"routes", "route_desc">>,
     <<"unknown_table", "stop_name">>}

\* The rows the build is run on: a stop name in every language text with
\* either translation, and the other table/field pairs with every
\* combination of present and absent key columns.
Rows ==
    {RawTranslation(<<"stops", "stop_name">>, l, t, <<Some("S1"), None, None>>) :
        l \in LanguageTexts, t \in TranslationTexts}
    \cup
    {RawTranslation(tf, <<"e", "n">>, "Main St", k) :
        tf \in OtherTableFields, k \in KeyColumns}

\* What the CSV reader yields for a record: a decoded row, or an error.
CsvRecords == {Ok(r) : r \in Rows} \cup {Err}

CsvTexts == UNION {[1..n -> CsvRecords] : n \in 0..MaxRows}

(***************************************************************************)
(* translation_csv_text_to_translations, run on a text and then re-run on  *)
(* the same text                                                           *)
(***************************************************************************)
Idle ==
    /\ args = <<>>
    /\ ret = None

Init ==
    /\ pc = "csv"
    /\ data \in CsvTexts
    /\ raw_translations = <<>>
    /\ consumed = <<>>
    /\ res = EmptyMap
    /\ possible_translations = {}
    /\ returned = None
    /\ first = None
    /\ Idle

IsOk(record) == record[1] = "Ok"

\* Lines 232-241, then the call of line 243 up to the head of the for loop
\* (lines 196-197): the records that failed to decode are left out.
pre_translations_of(records) ==
    LET oks == SelectSeq(records, IsOk)
    IN  [k \in DOMAIN oks |-> oks[k][2]]

ReadCsv ==
    /\ pc = "csv"
    /\ raw_translations' = pre_translations_of(data)
    /\ consumed' = <<>>
    /\ res' = EmptyMap
    /\ possible_translations' = {}
    /\ pc' = "rows"
    /\ UNCHANGED <<data, returned, first, args, ret>>

\* One iteration of the for loop of lines 199-213.
ForRow ==
    /\ pc = "rows"
    /\ raw_translations # <<>>
    /\ LET acc == for_row([res |-> res,
                           possible_translations |-> possible_translations],
                          Head(raw_translations))
       IN  /\ res' = acc.res
           /\ possible_translations' = acc.possible_translations
    /\ consumed' = Append(consumed, Head(raw_translations))
    /\ raw_translations' = Tail(raw_translations)
    /\ UNCHANGED <<pc, data, returned, first, args, ret>>

\* Lines 215-228 and the Ok of line 243.
TranslationResult(languages, translations, possible) ==
    [avaliable_languages |-> languages,
     translations |-> translations,
     possible_translations |-> possible]

Collect ==
    /\ pc = "rows"
    /\ raw_translations = <<>>
    /\ \E possible \in into_iter_collect(possible_translations) :
         \E languages \in into_iter_collect({possible[k][2] : k \in DOMAIN possible}) :
            returned' = Some(Ok(TranslationResult(languages, res, possible)))
    /\ pc' = "done"
    /\ UNCHANGED <<data, raw_translations, consumed, res, possible_translations,
                   first, args, ret>>

\* The caller runs the build again on the same text.
Rerun ==
    /\ pc = "done"
    /\ first = None
    /\ first' = returned
    /\ returned' = None
    /\ pc' = "csv"
    /\ raw_translations' = <<>>
    /\ consumed' = <<>>
    /\ res' = EmptyMap
    /\ possible_translations' = {}
    /\ UNCHANGED <<data, args, ret>>

Next == ReadCsv \/ ForRow \/ Collect \/ Rerun

Spec == Init /\ [][Next]_vars

(***************************************************************************)
(* table_and_field_to_enum on its own                                      *)
(***************************************************************************)
TableNames ==
    {"agency", "areas", "routes", "stop_times", "stops", "trips", "calendar",
     "fare_products", "feed_info", "unknown_table", "Stops"}

FieldNames ==
    {"agency_name", "agency_url", "agency_fare_url", "area_name",
     "route_long_name", "route_short_name", "route_url", "stop_headsign",
     "stop_code", "stop_name", "tts_stop_name", "stop_desc", "platform_code",
     "trip_headsign", "trip_short_name", "service_id", "fare_product_name",
     "feed_publisher_name",
     "name", "url", "fare_url", "long_name", "short_name", "headsign", "code",
     "tts_name", "desc", "product_name", "publisher_name",
     "route_desc", "unknown_field"}

NoBuild ==
    /\ data = <<>>
    /\ raw_translations = <<>>
    /\ consumed = <<>>
    /\ res = EmptyMap
    /\ possible_translations = {}
    /\ returned = None
    /\ first = None

InitTaxonomy ==
    /\ pc = "call"
    /\ args \in TableNames \X FieldNames
    /\ ret = None
    /\ NoBuild

CallTableAndFieldToEnum ==
    /\ pc = "call"
    /\ Len(args) = 2
    /\ ret' = table_and_field_to_enum(args[1], args[2])
    /\ pc' = "return"
    /\ UNCHANGED <<data, raw_translations, consumed, res, possible_translations,
                   returned, first, args>>

SpecTaxonomy == InitTaxonomy /\ [][CallTableAndFieldToEnum]_vars

(***************************************************************************)
(* key_options_to_struct on its own                                        *)
(***************************************************************************)
OptionTexts == {None, Some("S1"), Some("1"), Some("Main")}

InitKey ==
    /\ pc = "call"
    /\ args \in OptionTexts \X OptionTexts \X OptionTexts
    /\ ret = None
    /\ NoBuild

CallKeyOptionsToStruct ==
    /\ pc = "call"
    /\ Len(args) = 3
    /\ ret' = key_options_to_struct(args[1], args[2], args[3])
    /\ pc' = "return"
    /\ UNCHANGED <<data, raw_translations, consumed, res, possible_translations,
                   returned, first, args>>

SpecKey == InitKey /\ [][CallKeyOptionsToStruct]_vars

(***************************************************************************)
(* Properties of key_options_to_struct                                     *)
(***************************************************************************)
\* C1: the key follows the fixed precedence.  With record_id and
\* record_sub_id both present the key is RecordSub(record_id, record_sub_id)
\* whether or not field_value is present; else with record_id present it is
\* Record(record_id), field_value being ignored; else with field_value
\* present it is Value(field_value).  At most one key is produced.
C1_KeyPrecedence ==
    pc = "return" =>
        LET record_id == args[1]
            record_sub_id == args[2]
            field_value == args[3]
        IN  /\ Len(ret) <= 1
            /\ (record_id # None /\ record_sub_id # None) =>
                   ret = Some(<<"RecordSub", record_id[1], record_sub_id[1]>>)
            /\ (record_id # None /\ record_sub_id = None) =>
                   ret = Some(<<"Record", record_id[1]>>)
            /\ (record_id = None /\ field_value # None) =>
                   ret = Some(<<"Value", field_value[1]>>)

\* All three columns present, and the resolver has returned a RecordSub key.
C1_Witness ==
    /\ pc = "return"
    /\ args[1] # None /\ args[2] # None /\ args[3] # None
    /\ ret # None
    /\ ret[1][1] = "RecordSub"

(***************************************************************************)
(* Properties of table_and_field_to_enum                                   *)
(***************************************************************************)
\* The registry of section 4.1 of the specification, read as pairs of texts.
ListedRegistry ==
    {<<"agency", "name">>, <<"agency", "url">>, <<"agency", "fare_url">>,
     <<"areas", "name">>,
     <<"routes", "long_name">>, <<"routes", "short_name">>, <<"routes", "url">>,
     <<"stop_times", "headsign">>,
     <<"stops", "code">>, <<"stops", "name">>, <<"stops", "tts_name">>,
     <<"stops", "desc">>, <<"stops", "platform_code">>,
     <<"trips", "headsign">>, <<"trips", "short_name">>,
     <<"calendar", "service_id">>,
     <<"fare_products", "product_name">>,
     <<"feed_info", "publisher_name">>}

\* The same eighteen fields under the column names of the GTFS files.
ColumnRegistry ==
    {<<"agency", "agency_name">>, <<"agency", "agency_url">>,
     <<"agency", "agency_fare_url">>,
     <<"areas", "area_name">>,
     <<"routes", "route_long_name">>, <<"routes", "route_short_name">>,
     <<"routes", "route_url">>,
     <<"stop_times", "stop_headsign">>,
     <<"stops", "stop_code">>, <<"stops", "stop_name">>,
     <<"stops", "tts_stop_name">>, <<"stops", "stop_desc">>,
     <<"stops", "platform_code">>,
     <<"trips", "trip_headsign">>, <<"trips", "trip_short_name">>,
     <<"calendar", "service_id">>,
     <<"fare_products", "fare_product_name">>,
     <<"feed_info", "feed_publisher_name">>}

\* C3 as stated: a field identifier is returned if and only if the pair of
\* texts is one of the eighteen pairs listed in section 4.1.
C3_AsStated ==
    pc = "return" => (ret # None <=> args \in ListedRegistry)

\* C3: a field identifier is returned if and only if the pair of texts is
\* one of the eighteen pairs of a table and a GTFS column name of that
\* table; an unknown table and an unlisted column of a known table both
\* return None.
C3_ExactRegistry ==
    pc = "return" =>
        /\ ret # None <=> args \in ColumnRegistry
        /\ args \notin ColumnRegistry => ret = None

\* An unlisted column of a known table has been looked up and rejected.
C3_Witness ==
    /\ pc = "return"
    /\ args = <<"routes", "route_desc">>
    /\ ret = None

(***************************************************************************)
(* Properties of the build                                                 *)
(***************************************************************************)
InLoopOrAfter == pc \in {"rows", "done"}

Accumulated == [res |-> res, possible_translations |-> possible_translations]

EmptyAccumulated == [res |-> EmptyMap, possible_translations |-> {}]

\* The loop of lines 199-213 run on a whole sequence of rows.
RECURSIVE Fold(_)
Fold(rows) ==
    IF rows = <<>> THEN EmptyAccumulated
    ELSE for_row(Fold(SubSeq(rows, 1, Len(rows) - 1)), rows[Len(rows)])

RemoveAt(rows, k) == SubSeq(rows, 1, k - 1) \o SubSeq(rows, k + 1, Len(rows))

\* The value returned by the run, once it has returned Ok.
Result == returned[1][2]

ReturnedOk == pc = "done" /\ returned # None /\ returned[1][1] = "Ok"

\* The returned value shows the accumulated map and coverage set acc.
Shows(acc) ==
    /\ Result.translations = acc.res
    /\ Range(Result.possible_translations) = acc.possible_translations
    /\ Range(Result.avaliable_languages) =
           {pair[2] : pair \in acc.possible_translations}

\* The lookup triple a row resolves to, if it resolves to one.
Resolves(row) ==
    LET parsed == LanguageTag_parse(row.language)
        field == table_and_field_to_enum(row.table_name, row.field_name)
        key == key_options_to_struct(row.record_id, row.record_sub_id, row.field_value)
    IN  IF parsed # None /\ field # None /\ key # None
        THEN Some(TranslationLookup(parsed[1], field[1], key[1]))
        ELSE None

KeyOf(row) == key_options_to_struct(row.record_id, row.record_sub_id, row.field_value)

LanguageAndFieldValid(row) ==
    /\ LanguageTag_parse(row.language) # None
    /\ <<row.table_name, row.field_name>> \in ColumnRegistry

\* C2 as stated: no key is derived if and only if the three key columns are
\* all absent.
C2_AsStated ==
    InLoopOrAfter =>
        \A k \in DOMAIN consumed :
            KeyOf(consumed[k]) = None <=>
                /\ consumed[k].record_id = None
                /\ consumed[k].record_sub_id = None
                /\ consumed[k].field_value = None

\* C2: no key is derived if and only if record_id and field_value are both
\* absent (a record_sub_id on its own derives no key); when record_id or
\* field_value is present exactly one key is derived, and a row with a
\* valid language and field is then in the map right after it is consumed.
C2_NoKeyIffNoIdNoValue ==
    InLoopOrAfter =>
        /\ \A k \in DOMAIN consumed :
              /\ KeyOf(consumed[k]) = None <=>
                    (consumed[k].record_id = None /\ consumed[k].field_value = None)
              /\ Len(KeyOf(consumed[k])) <= 1
        /\ consumed # <<>> =>
              LET row == consumed[Len(consumed)]
                  before == SubSeq(consumed, 1, Len(consumed) - 1)
              IN  LanguageAndFieldValid(row) =>
                      IF row.record_id # None \/ row.field_value # None
                      THEN /\ Resolves(row) # None
                           /\ Resolves(row)[1] \in DOMAIN res
                           /\ res[Resolves(row)[1]] = row.translation
                      ELSE Accumulated = Fold(before)

\* A row with only a record_sub_id has been consumed and left the map empty.
C2_Witness ==
    /\ pc = "done"
    /\ Len(consumed) = 1
    /\ LanguageAndFieldValid(consumed[1])
    /\ consumed[1].record_id = None
    /\ consumed[1].record_sub_id # None
    /\ consumed[1].field_value = None
    /\ DOMAIN res = {}

\* C4: a row whose table/field pair is not in the registry contributes
\* nothing: after any number of rows the map and the coverage set are those
\* of the same rows with that row removed, and so is the returned result.
C4_UnregisteredRowIgnored ==
    InLoopOrAfter =>
        \A k \in DOMAIN consumed :
            <<consumed[k].table_name, consumed[k].field_name>> \notin ColumnRegistry =>
                /\ Accumulated = Fold(RemoveAt(consumed, k))
                /\ ReturnedOk => Shows(Fold(RemoveAt(consumed, k)))

\* A row of an unknown table came first, a row that is indexed came after
\* it, and the result has been returned.
C4_Witness ==
    /\ ReturnedOk
    /\ Len(consumed) = 2
    /\ consumed[1].table_name = "unknown_table"
    /\ consumed[1].record_id # None
    /\ Resolves(consumed[2]) # None
    /\ Cardinality(DOMAIN Result.translations) = 1

\* C5: a row whose language text is no language tag is skipped entirely:
\* after any number of rows the map and the coverage set are those of the
\* same rows with that row removed, and so are the map, the coverage and
\* the languages of the returned result.
C5_BadLanguageRowSkipped ==
    InLoopOrAfter =>
        \A k \in DOMAIN consumed :
            LanguageTag_parse(consumed[k].language) = None =>
                /\ Accumulated = Fold(RemoveAt(consumed, k))
                /\ ReturnedOk => Shows(Fold(RemoveAt(consumed, k)))

\* A row with a bad language text came first, a row that is indexed came
\* after it, and the result has been returned.
C5_Witness ==
    /\ ReturnedOk
    /\ Len(consumed) = 2
    /\ LanguageTag_parse(consumed[1].language) = None
    /\ consumed[1].table_name = "stops"
    /\ Resolves(consumed[2]) # None
    /\ Len(Result.avaliable_languages) = 1

ResolvingTo(t) == {k \in DOMAIN consumed : Resolves(consumed[k]) = Some(t)}

Last(indices) == CHOOSE k \in indices : \A j \in indices : j <= k

\* C6: last write wins.  The map holds exactly one entry per triple that
\* some consumed row resolves to, and its value is the translation of the
\* last such row in input order; the returned map is that map.
C6_LastWriteWins ==
    InLoopOrAfter =>
        /\ DOMAIN res =
              {Resolves(consumed[k])[1] :
                  k \in {j \in DOMAIN consumed : Resolves(consumed[j]) # None}}
        /\ \A t \in DOMAIN res :
              res[t] = consumed[Last(ResolvingTo(t))].translation
        /\ ReturnedOk => Result.translations = res

\* Two rows with different translations resolved to one triple, and the
\* returned map holds the translation of the second.
C6_Witness ==
    /\ ReturnedOk
    /\ Len(consumed) = 2
    /\ Resolves(consumed[1]) # None
    /\ Resolves(consumed[1]) = Resolves(consumed[2])
    /\ consumed[1].translation # consumed[2].translation
    /\ Result.translations[Resolves(consumed[2])[1]] = consumed[2].translation

\* C7: coverage consistency.  After every row each pair of the coverage set
\* has an entry of the map with its field and language; in the returned
\* result each pair of possible_translations has such an entry in
\* translations and each language of avaliable_languages is the language of
\* a pair of possible_translations.
C7_CoverageConsistent ==
    /\ \A pair \in possible_translations :
          \E t \in DOMAIN res : t.field = pair[1] /\ t.language = pair[2]
    /\ ReturnedOk =>
          /\ \A pair \in Range(Result.possible_translations) :
                \E t \in DOMAIN Result.translations :
                    t.field = pair[1] /\ t.language = pair[2]
          /\ \A language \in Range(Result.avaliable_languages) :
                \E pair \in Range(Result.possible_translations) :
                    pair[2] = language

\* A row with a valid language and field but no key was consumed, a row of
\* the same field that is indexed came after it, and the returned result
\* lists one coverage pair and one language.
C7_Witness ==
    /\ ReturnedOk
    /\ Len(consumed) = 2
    /\ LanguageAndFieldValid(consumed[1])
    /\ KeyOf(consumed[1]) = None
    /\ Resolves(consumed[2]) # None
    /\ Len(Result.possible_translations) = 1
    /\ Len(Result.avaliable_languages) = 1

\* C8: the build re-run on the same text returns a value equal to the one
\* it returned before, the order of the two sequences included.
C8_RerunEqual ==
    (pc = "done" /\ first # None) => returned = first

\* C9: when the CSV reader fails on a record, the build returns Err.
C9_DecodeFailureFatal ==
    (pc = "done" /\ \E k \in DOMAIN data : ~IsOk(data[k])) =>
        returned[1][1] = "Err"

\* C10: the converse of coverage consistency.  After every row each entry
\* of the map has its (field, language) pair in the coverage set; in the
\* returned result each entry of translations has its pair in
\* possible_translations and its language in avaliable_languages, and
\* neither sequence holds an element twice.
C10_EveryEntryCovered ==
    /\ \A t \in DOMAIN res : <<t.field, t.language>> \in possible_translations
    /\ ReturnedOk =>
          /\ \A t \in DOMAIN Result.translations :
                /\ <<t.field, t.language>> \in Range(Result.possible_translations)
                /\ t.language \in Range(Result.avaliable_languages)
          /\ \A j, k \in DOMAIN Result.possible_translations :
                Result.possible_translations[j] = Result.possible_translations[k]
                    => j = k
          /\ \A j, k \in DOMAIN Result.avaliable_languages :
                Result.avaliable_languages[j] = Result.avaliable_languages[k]
                    => j = k

\* Two rows of one field and language were indexed under two keys, and the
\* returned result lists the pair and the language once.
C10_Witness ==
    /\ ReturnedOk
    /\ Len(consumed) = 2
    /\ Cardinality(DOMAIN Result.translations) = 2
    /\ Len(Result.possible_translations) = 1
    /\ Len(Result.avaliable_languages) = 1

====
